---- MODULE Spec2Model ----
(***************************************************************************)
(* moving_min_max: MovingMin<T> and MovingMax<T> of src/src/lib.rs, the    *)
(* two-stack sliding-window extremum trackers.                             *)
(*                                                                         *)
(* One MovingMin and one MovingMax are driven by the same sequence of      *)
(* push/pop calls; MovingMax receives the order-reversed image of every    *)
(* value MovingMin receives.  Values is closed under that image, so each   *)
(* tracker on its own sees every sequence of pushes and pops over Values   *)
(* of at most MaxOps operations.                                           *)
(***************************************************************************)
EXTENDS Integers, Sequences, FiniteSets, TLC

\* ---------------------------------------------------------------- bounds
\* Pushed values are the integers -MaxVal..MaxVal.
MaxVal == 1
\* A run makes at most MaxOps calls of push or pop (on each tracker).
MaxOps == 6

\* Two trackers holding the same window are compared after at most MaxHist
\* calls, over every sequence of FutureLen further calls.
MaxHist == 4

FutureLen == 2

\* ------------------------------------------------------------- the type T
\* T: Clone + PartialOrd.  A value carries the integer the ordering looks at
\* (v) and the serial number of the push that brought it in (id), which the
\* ordering ignores: two pushes of the same integer stay distinguishable, as
\* two equal-comparing values of a generic T are.
Values == (-MaxVal)..MaxVal

T(v, id) == [v |-> v, id |-> id]

\* PartialOrd::lt and PartialOrd::gt on T.
Lt(a, b) == a.v < b.v

Gt(a, b) == a.v > b.v

\* Option<T>: None is the empty sequence, Some(x) the one-element sequence.
None == << >>

Some(x) == << x >>

\* A Vec is a sequence, the top of the stack at its end.  Last is the entry
\* Vec::last and Vec::pop give for a non-empty Vec, Front what Vec::pop
\* leaves in it.
Last(stack) == stack[Len(stack)]

Front(stack) == SubSeq(stack, 1, Len(stack) - 1)

\* A read of pop_stack by Vec::get_unchecked is recorded as: the length of
\* pop_stack at the read (len), the index computed, len - 1, counted from 0
\* (index; below 0 stands for the usize subtraction underflowing), the
\* entry read (entry, an Option: None when the index is outside the Vec,
\* where the read is undefined behaviour), the value appended to pop_stack
\* last before the read in the same call (newest, an Option) and the number
\* of entries the loop has left in push_stack (left).
InBounds(read) == 0 <= read.index /\ read.index < read.len

\* --------------------------------------------------------------- MovingMin
\* MovingMin::new: both stacks empty.  (with_capacity differs only in the
\* reserved storage, which nothing observes.)
MovingMin_new == [push_stack |-> << >>, pop_stack |-> << >>]

\* MovingMin::min as it would be if, with both stacks non-empty, it returned
\* the push side's running minimum without comparing the two.
MovingMin_min_push_side_only(self) ==
    LET p == self.push_stack
        q == self.pop_stack
    IN  IF p = << >> /\ q = << >> THEN None
        ELSE IF q = << >> THEN Some(Last(p)[2])
        ELSE IF p = << >> THEN Some(Last(q)[2])
        ELSE Some(Last(p)[2])

\* MovingMin::min.
MovingMin_min(self) ==
    LET p == self.push_stack
        q == self.pop_stack
    IN  IF p = << >> /\ q = << >> THEN None
        ELSE IF q = << >> THEN Some(Last(p)[2])
        ELSE IF p = << >> THEN Some(Last(q)[2])
        ELSE LET a == Last(p)[2]
                 b == Last(q)[2]
             IN  Some(IF Lt(a, b) THEN a ELSE b)

\* MovingMin::len as it would be if it counted pop_stack alone.
MovingMin_len_pop_side_only(self) == Len(self.pop_stack)

\* MovingMin::len.
MovingMin_len(self) == Len(self.push_stack) + Len(self.pop_stack)

\* MovingMin::push as it would be if it compared val with the value of the
\* top entry instead of with its running minimum.
MovingMin_push_against_last_value(self, val) ==
    LET entry == IF self.push_stack # << >>
                 THEN LET top == Last(self.push_stack)[1]
                      IN  IF Gt(val, top) THEN << val, top >> ELSE << val, val >>
                 ELSE << val, val >>
    IN  [self |-> [self EXCEPT !.push_stack = Append(@, entry)],
         cmp  |-> IF self.push_stack # << >> THEN 1 ELSE 0,
         app  |-> 1,
         rem  |-> 0]

\* MovingMin::push as it would be if, finding push_stack empty, it took the
\* running minimum to compare with from the top of pop_stack.
MovingMin_push_seeded_from_pop_side(self, val) ==
    LET seed  == IF self.push_stack # << >> THEN self.push_stack
                 ELSE self.pop_stack
        entry == IF seed # << >>
                 THEN LET min == Last(seed)[2]
                      IN  IF Gt(val, min) THEN << val, min >> ELSE << val, val >>
                 ELSE << val, val >>
    IN  [self |-> [self EXCEPT !.push_stack = Append(@, entry)],
         cmp  |-> IF seed # << >> THEN 1 ELSE 0,
         app  |-> 1,
         rem  |-> 0]

\* MovingMin::push.  The result is the new state (self) and the elementary
\* steps the call made: comparisons of values (cmp), Vec::push calls (app),
\* entries removed by Vec::pop (rem).
MovingMin_push(self, val) ==
    LET entry == IF self.push_stack # << >>
                 THEN LET min == Last(self.push_stack)[2]
                      IN  IF Gt(val, min) THEN << val, min >> ELSE << val, val >>
                 ELSE << val, val >>
    IN  [self |-> [self EXCEPT !.push_stack = Append(@, entry)],
         cmp  |-> IF self.push_stack # << >> THEN 1 ELSE 0,
         app  |-> 1,
         rem  |-> 0]

\* unsafe { self.pop_stack.get_unchecked(self.pop_stack.len() - 1) } in the
\* loop of MovingMin::pop, in the loop state st: the read it makes.
MovingMin_get_unchecked(st, index) ==
    [len    |-> Len(st.pop_stack),
     index  |-> index,
     entry  |-> IF 0 <= index /\ index < Len(st.pop_stack)
                THEN Some(st.pop_stack[index + 1]) ELSE None,
     newest |-> IF st.moved = << >> THEN None ELSE Some(Last(st.moved)),
     left   |-> Len(st.push_stack) - 1]

\* The loop of MovingMin::pop as it would be if it moved every entry as it
\* is, with the running minimum it had in push_stack.
RECURSIVE MovingMin_pop_loop_keeps_annotation(_)
MovingMin_pop_loop_keeps_annotation(st) ==
    IF st.push_stack = << >> THEN st
    ELSE MovingMin_pop_loop_keeps_annotation(
             [st EXCEPT !.push_stack = Front(@),
                        !.pop_stack  = Append(@, Last(st.push_stack)),
                        !.app        = @ + 1,
                        !.rem        = @ + 1,
                        !.moved      = Append(@, Last(st.push_stack)[1])])

\* The loop of MovingMin::pop as it would be with `if let` in place of
\* `while let`: one more entry is moved and the rest stays in push_stack.
MovingMin_pop_loop_if_let(st) ==
    IF st.push_stack = << >> THEN st
    ELSE LET val  == Last(st.push_stack)[1]
             read == MovingMin_get_unchecked(st, Len(st.pop_stack) - 1)
             last == st.pop_stack[Len(st.pop_stack)]
             min  == IF Lt(last[2], val) THEN last[2] ELSE val
         IN  [st EXCEPT !.push_stack = Front(@),
                        !.pop_stack  = Append(@, << val, min >>),
                        !.cmp        = @ + 1,
                        !.app        = @ + 1,
                        !.rem        = @ + 1,
                        !.moved      = Append(@, val),
                        !.reads      = Append(@, read)]

\* The while-let loop of MovingMin::pop: st holds both stacks, the step
\* counts so far and the values moved so far (moved, in the order moved).
RECURSIVE MovingMin_pop_loop(_)
MovingMin_pop_loop(st) ==
    IF st.push_stack = << >> THEN st
    ELSE LET val   == Last(st.push_stack)[1]
             len   == Len(st.pop_stack)
             index == len - 1
             read  == MovingMin_get_unchecked(st, index)
         IN  IF ~ InBounds(read)
             THEN [st EXCEPT !.push_stack = Front(@),
                             !.rem        = @ + 1,
                             !.reads      = Append(@, read)]
             ELSE LET last == read.entry[1]
                      min  == IF Lt(last[2], val) THEN last[2] ELSE val
                  IN  MovingMin_pop_loop(
                          [push_stack |-> Front(st.push_stack),
                           pop_stack  |-> Append(st.pop_stack, << val, min >>),
                           cmp        |-> st.cmp + 1,
                           app        |-> st.app + 1,
                           rem        |-> st.rem + 1,
                           moved      |-> Append(st.moved, val),
                           none       |-> st.none,
                           reads      |-> Append(st.reads, read)])

\* The transfer of MovingMin::pop as it would be without the test
\* `if self.pop_stack.is_empty()`: push_stack is moved onto pop_stack at
\* every pop.
MovingMin_pop_refill_unguarded(self) ==
    IF self.push_stack # << >>
    THEN LET val  == Last(self.push_stack)[1]
             min  == IF self.pop_stack = << >> THEN val
                     ELSE IF Lt(Last(self.pop_stack)[2], val)
                          THEN Last(self.pop_stack)[2] ELSE val
         IN  MovingMin_pop_loop(
                  [push_stack |-> Front(self.push_stack),
                   pop_stack  |-> Append(self.pop_stack, << val, min >>),
                   cmp |-> 0, app |-> 1, rem |-> 1,
                   moved |-> << val >>, none |-> FALSE,
          reads |-> << >>])
    ELSE [push_stack |-> self.push_stack, pop_stack |-> self.pop_stack,
          cmp |-> 0, app |-> 0, rem |-> 0, moved |-> << >>,
          none |-> (self.pop_stack = << >>),
          reads |-> << >>]

\* The transfer of MovingMin::pop as it would be if it read the entries of
\* push_stack without removing them: push_stack keeps what it held.
MovingMin_pop_refill_no_drain(self) ==
    IF self.pop_stack = << >>
    THEN IF self.push_stack # << >>
         THEN LET val == Last(self.push_stack)[1]
                  st  == MovingMin_pop_loop(
                             [push_stack |-> Front(self.push_stack),
                              pop_stack  |-> << << val, val >> >>,
                              cmp |-> 0, app |-> 1, rem |-> 0,
                              moved |-> << val >>, none |-> FALSE,
          reads |-> << >>])
              IN  [st EXCEPT !.push_stack = self.push_stack]
         ELSE [push_stack |-> self.push_stack, pop_stack |-> self.pop_stack,
               cmp |-> 0, app |-> 0, rem |-> 0, moved |-> << >>, none |-> TRUE,
          reads |-> << >>]
    ELSE [push_stack |-> self.push_stack, pop_stack |-> self.pop_stack,
          cmp |-> 0, app |-> 0, rem |-> 0, moved |-> << >>, none |-> FALSE,
          reads |-> << >>]

\* The transfer of MovingMin::pop as it would be if push_stack were moved
\* to pop_stack as it stands (bottom first), without reversing it.
MovingMin_pop_refill_unreversed(self) ==
    IF self.pop_stack = << >>
    THEN IF self.push_stack # << >>
         THEN [push_stack |-> << >>, pop_stack |-> self.push_stack,
               cmp |-> 0, app |-> Len(self.push_stack),
               rem |-> Len(self.push_stack),
               moved |-> [i \in 1..Len(self.push_stack) |-> self.push_stack[i][1]],
               none |-> FALSE,
          reads |-> << >>]
         ELSE [push_stack |-> self.push_stack, pop_stack |-> self.pop_stack,
               cmp |-> 0, app |-> 0, rem |-> 0, moved |-> << >>, none |-> TRUE,
          reads |-> << >>]
    ELSE [push_stack |-> self.push_stack, pop_stack |-> self.pop_stack,
          cmp |-> 0, app |-> 0, rem |-> 0, moved |-> << >>, none |-> FALSE,
          reads |-> << >>]

\* The transfer of MovingMin::pop as it would be without the line
\* self.pop_stack.push((val.clone(), val)): the loop starts on an empty
\* pop_stack.
MovingMin_pop_refill_no_first_push(self) ==
    IF self.pop_stack = << >>
    THEN IF self.push_stack # << >>
         THEN MovingMin_pop_loop(
                  [push_stack |-> Front(self.push_stack),
                   pop_stack  |-> << >>,
                   cmp |-> 0, app |-> 0, rem |-> 1,
                   moved |-> << >>, none |-> FALSE, reads |-> << >>])
         ELSE [push_stack |-> self.push_stack, pop_stack |-> self.pop_stack,
               cmp |-> 0, app |-> 0, rem |-> 0, moved |-> << >>, none |-> TRUE,
               reads |-> << >>]
    ELSE [push_stack |-> self.push_stack, pop_stack |-> self.pop_stack,
          cmp |-> 0, app |-> 0, rem |-> 0, moved |-> << >>, none |-> FALSE,
          reads |-> << >>]

\* The transfer of MovingMin::pop (the `if self.pop_stack.is_empty()` block):
\* both stacks afterwards, the step counts, the values moved from push_stack
\* to pop_stack in the order moved, and whether the block returned None.
MovingMin_pop_refill(self) ==
    IF self.pop_stack = << >>
    THEN IF self.push_stack # << >>
         THEN LET val == Last(self.push_stack)[1]
              IN  MovingMin_pop_loop(
                       [push_stack |-> Front(self.push_stack),
                        pop_stack  |-> << << val, val >> >>,
                        cmp |-> 0, app |-> 1, rem |-> 1,
                        moved |-> << val >>, none |-> FALSE,
          reads |-> << >>])
         ELSE [push_stack |-> self.push_stack, pop_stack |-> self.pop_stack,
               cmp |-> 0, app |-> 0, rem |-> 0, moved |-> << >>, none |-> TRUE,
          reads |-> << >>]
    ELSE [push_stack |-> self.push_stack, pop_stack |-> self.pop_stack,
          cmp |-> 0, app |-> 0, rem |-> 0, moved |-> << >>, none |-> FALSE,
          reads |-> << >>]

\* The last line of MovingMin::pop as it would be with Vec::last in place of
\* Vec::pop: the value is returned and the entry stays.
MovingMin_pop_take_peek(st) ==
    [self  |-> [push_stack |-> st.push_stack, pop_stack |-> st.pop_stack],
     ret   |-> IF st.pop_stack = << >> THEN None
               ELSE Some(Last(st.pop_stack)[1]),
     cmp   |-> st.cmp,
     app   |-> st.app,
     rem   |-> st.rem,
     moved |-> st.moved, reads |-> st.reads]

\* The last line of MovingMin::pop as it would be with the closure
\* |(_, min)| min: the entry's running minimum is returned, not its value.
MovingMin_pop_take_returns_annotation(st) ==
    [self  |-> [push_stack |-> st.push_stack,
                pop_stack  |-> IF st.pop_stack = << >> THEN << >>
                               ELSE Front(st.pop_stack)],
     ret   |-> IF st.pop_stack = << >> THEN None
               ELSE Some(Last(st.pop_stack)[2]),
     cmp   |-> st.cmp,
     app   |-> st.app,
     rem   |-> st.rem + (IF st.pop_stack = << >> THEN 0 ELSE 1),
     moved |-> st.moved, reads |-> st.reads]

\* The last line of MovingMin::pop: self.pop_stack.pop().map(|(val, _)| val).
MovingMin_pop_take(st) ==
    [self  |-> [push_stack |-> st.push_stack,
                pop_stack  |-> IF st.pop_stack = << >> THEN << >>
                               ELSE Front(st.pop_stack)],
     ret   |-> IF st.pop_stack = << >> THEN None
               ELSE Some(Last(st.pop_stack)[1]),
     cmp   |-> st.cmp,
     app   |-> st.app,
     rem   |-> st.rem + (IF st.pop_stack = << >> THEN 0 ELSE 1),
     moved |-> st.moved, reads |-> st.reads]

\* MovingMin::pop.  The result is the new state (self), the returned Option<T>
\* (ret), the step counts and the values the call moved from push_stack to
\* pop_stack.
MovingMin_pop(self) ==
    LET st == MovingMin_pop_refill(self)
    IN  IF st.none
        THEN [self |-> self, ret |-> None,
              cmp |-> 0, app |-> 0, rem |-> 0, moved |-> << >>,
              reads |-> << >>]
        ELSE MovingMin_pop_take(st)

\* --------------------------------------------------------------- MovingMax
\* MovingMax::new.
MovingMax_new == [push_stack |-> << >>, pop_stack |-> << >>]

\* MovingMax::max.
MovingMax_max(self) ==
    LET p == self.push_stack
        q == self.pop_stack
    IN  IF p = << >> /\ q = << >> THEN None
        ELSE IF q = << >> THEN Some(Last(p)[2])
        ELSE IF p = << >> THEN Some(Last(q)[2])
        ELSE LET a == Last(p)[2]
                 b == Last(q)[2]
             IN  Some(IF Gt(a, b) THEN a ELSE b)

\* MovingMax::len.
MovingMax_len(self) == Len(self.push_stack) + Len(self.pop_stack)

\* MovingMax::push as it would be with the comparison of MovingMin::push
\* (val > *max) left uninverted.
MovingMax_push_uninverted(self, val) ==
    LET entry == IF self.push_stack # << >>
                 THEN LET max == Last(self.push_stack)[2]
                      IN  IF Gt(val, max) THEN << val, max >> ELSE << val, val >>
                 ELSE << val, val >>
    IN  [self |-> [self EXCEPT !.push_stack = Append(@, entry)],
         cmp  |-> IF self.push_stack # << >> THEN 1 ELSE 0,
         app  |-> 1,
         rem  |-> 0]

\* MovingMax::push as it would be if it kept push_stack monotone, dropping
\* the entries whose value is smaller than val before appending.
MovingMax_push_monotone(self, val) ==
    LET kept  == SelectSeq(self.push_stack, LAMBDA e : ~ Lt(e[1], val))
        entry == IF kept # << >>
                 THEN LET max == Last(kept)[2]
                      IN  IF Lt(val, max) THEN << val, max >> ELSE << val, val >>
                 ELSE << val, val >>
    IN  [self |-> [self EXCEPT !.push_stack = Append(kept, entry)],
         cmp  |-> Len(self.push_stack),
         app  |-> 1,
         rem  |-> Len(self.push_stack) - Len(kept)]

\* MovingMax::push as it would be if it compared val with the value of the
\* top entry instead of with its running maximum.
MovingMax_push_against_last_value(self, val) ==
    LET entry == IF self.push_stack # << >>
                 THEN LET top == Last(self.push_stack)[1]
                      IN  IF Lt(val, top) THEN << val, top >> ELSE << val, val >>
                 ELSE << val, val >>
    IN  [self |-> [self EXCEPT !.push_stack = Append(@, entry)],
         cmp  |-> IF self.push_stack # << >> THEN 1 ELSE 0,
         app  |-> 1,
         rem  |-> 0]

\* MovingMax::push.
MovingMax_push(self, val) ==
    LET entry == IF self.push_stack # << >>
                 THEN LET max == Last(self.push_stack)[2]
                      IN  IF Lt(val, max) THEN << val, max >> ELSE << val, val >>
                 ELSE << val, val >>
    IN  [self |-> [self EXCEPT !.push_stack = Append(@, entry)],
         cmp  |-> IF self.push_stack # << >> THEN 1 ELSE 0,
         app  |-> 1,
         rem  |-> 0]

\* unsafe { self.pop_stack.get_unchecked(self.pop_stack.len() - 1) } in the
\* loop of MovingMax::pop, in the loop state st: the read it makes.
MovingMax_get_unchecked(st, index) ==
    [len    |-> Len(st.pop_stack),
     index  |-> index,
     entry  |-> IF 0 <= index /\ index < Len(st.pop_stack)
                THEN Some(st.pop_stack[index + 1]) ELSE None,
     newest |-> IF st.moved = << >> THEN None ELSE Some(Last(st.moved)),
     left   |-> Len(st.push_stack) - 1]

\* The loop of MovingMax::pop as it would be if every moved entry were
\* annotated with its own value instead of the running maximum.
RECURSIVE MovingMax_pop_loop_no_running_max(_)
MovingMax_pop_loop_no_running_max(st) ==
    IF st.push_stack = << >> THEN st
    ELSE LET val == Last(st.push_stack)[1]
         IN  MovingMax_pop_loop_no_running_max(
                 [push_stack |-> Front(st.push_stack),
                  pop_stack  |-> Append(st.pop_stack, << val, val >>),
                  cmp        |-> st.cmp,
                  app        |-> st.app + 1,
                  rem        |-> st.rem + 1,
                  moved      |-> Append(st.moved, val),
                  none       |-> st.none,
                  reads      |-> st.reads])

\* The loop of MovingMax::pop as it would be with `if let` in place of
\* `while let`: one more entry is moved and the rest stays in push_stack.
MovingMax_pop_loop_if_let(st) ==
    IF st.push_stack = << >> THEN st
    ELSE LET val  == Last(st.push_stack)[1]
             last == st.pop_stack[Len(st.pop_stack)]
             max  == IF Gt(last[2], val) THEN last[2] ELSE val
         IN  [st EXCEPT !.push_stack = Front(@),
                        !.pop_stack  = Append(@, << val, max >>),
                        !.cmp        = @ + 1,
                        !.app        = @ + 1,
                        !.rem        = @ + 1,
                        !.moved      = Append(@, val)]

\* The while-let loop of MovingMax::pop.
RECURSIVE MovingMax_pop_loop(_)
MovingMax_pop_loop(st) ==
    IF st.push_stack = << >> THEN st
    ELSE LET val   == Last(st.push_stack)[1]
             len   == Len(st.pop_stack)
             index == len - 1
             read  == MovingMax_get_unchecked(st, index)
         IN  IF ~ InBounds(read)
             THEN [st EXCEPT !.push_stack = Front(@),
                             !.rem        = @ + 1,
                             !.reads      = Append(@, read)]
             ELSE LET last == read.entry[1]
                      max  == IF Gt(last[2], val) THEN last[2] ELSE val
                  IN  MovingMax_pop_loop(
                          [push_stack |-> Front(st.push_stack),
                           pop_stack  |-> Append(st.pop_stack, << val, max >>),
                           cmp        |-> st.cmp + 1,
                           app        |-> st.app + 1,
                           rem        |-> st.rem + 1,
                           moved      |-> Append(st.moved, val),
                           none       |-> st.none,
                           reads      |-> Append(st.reads, read)])

\* The transfer of MovingMax::pop as it would be without the test
\* `if self.pop_stack.is_empty()`: push_stack is moved onto pop_stack at
\* every pop.
MovingMax_pop_refill_unguarded(self) ==
    IF self.push_stack # << >>
    THEN LET val  == Last(self.push_stack)[1]
             max  == IF self.pop_stack = << >> THEN val
                     ELSE IF Gt(Last(self.pop_stack)[2], val)
                          THEN Last(self.pop_stack)[2] ELSE val
         IN  MovingMax_pop_loop(
                  [push_stack |-> Front(self.push_stack),
                   pop_stack  |-> Append(self.pop_stack, << val, max >>),
                   cmp |-> 0, app |-> 1, rem |-> 1,
                   moved |-> << val >>, none |-> FALSE,
          reads |-> << >>])
    ELSE [push_stack |-> self.push_stack, pop_stack |-> self.pop_stack,
          cmp |-> 0, app |-> 0, rem |-> 0, moved |-> << >>,
          none |-> (self.pop_stack = << >>),
          reads |-> << >>]

\* The transfer of MovingMax::pop (the `if self.pop_stack.is_empty()` block):
\* both stacks afterwards, the step counts, the values moved from push_stack
\* to pop_stack in the order moved, and whether the block returned None.
MovingMax_pop_refill(self) ==
    IF self.pop_stack = << >>
    THEN IF self.push_stack # << >>
         THEN LET val == Last(self.push_stack)[1]
              IN  MovingMax_pop_loop(
                       [push_stack |-> Front(self.push_stack),
                        pop_stack  |-> << << val, val >> >>,
                        cmp |-> 0, app |-> 1, rem |-> 1,
                        moved |-> << val >>, none |-> FALSE,
          reads |-> << >>])
         ELSE [push_stack |-> self.push_stack, pop_stack |-> self.pop_stack,
               cmp |-> 0, app |-> 0, rem |-> 0, moved |-> << >>, none |-> TRUE,
          reads |-> << >>]
    ELSE [push_stack |-> self.push_stack, pop_stack |-> self.pop_stack,
          cmp |-> 0, app |-> 0, rem |-> 0, moved |-> << >>, none |-> FALSE,
          reads |-> << >>]

\* The last line of MovingMax::pop: self.pop_stack.pop().map(|(val, _)| val).
MovingMax_pop_take(st) ==
    [self  |-> [push_stack |-> st.push_stack,
                pop_stack  |-> IF st.pop_stack = << >> THEN << >>
                               ELSE Front(st.pop_stack)],
     ret   |-> IF st.pop_stack = << >> THEN None
               ELSE Some(Last(st.pop_stack)[1]),
     cmp   |-> st.cmp,
     app   |-> st.app,
     rem   |-> st.rem + (IF st.pop_stack = << >> THEN 0 ELSE 1),
     moved |-> st.moved, reads |-> st.reads]

\* MovingMax::pop as it would be if, having taken the front value, it moved
\* what is left of pop_stack back onto push_stack (the two-stack queue
\* without the amortisation).
RECURSIVE MovingMax_pop_move_back(_)
MovingMax_pop_move_back(r) ==
    IF r.self.pop_stack = << >> THEN r
    ELSE LET val == Last(r.self.pop_stack)[1]
             pu  == MovingMax_push([r.self EXCEPT !.pop_stack = Front(@)], val)
         IN  MovingMax_pop_move_back(
                 [r EXCEPT !.self = pu.self,
                           !.cmp = @ + pu.cmp,
                           !.app = @ + pu.app,
                           !.rem = @ + 1])

MovingMax_pop_unamortised(self) ==
    LET st == MovingMax_pop_refill(self)
    IN  IF st.none
        THEN [self |-> self, ret |-> None,
              cmp |-> 0, app |-> 0, rem |-> 0, moved |-> << >>,
              reads |-> << >>]
        ELSE MovingMax_pop_move_back(MovingMax_pop_take(st))

\* MovingMax::pop as it would be with `return None` taken whenever pop_stack
\* was empty at the call, after the transfer instead of in place of it.
MovingMax_pop_none_after_refill(self) ==
    LET st == MovingMax_pop_refill(self)
    IN  IF self.pop_stack = << >>
        THEN [self |-> [push_stack |-> st.push_stack, pop_stack |-> st.pop_stack],
              ret |-> None,
              cmp |-> st.cmp, app |-> st.app, rem |-> st.rem, moved |-> st.moved, reads |-> st.reads]
        ELSE MovingMax_pop_take(st)

\* MovingMax::pop.  The result is the new state (self), the returned Option<T>
\* (ret), the step counts and the values the call moved from push_stack to
\* pop_stack.
MovingMax_pop(self) ==
    LET st == MovingMax_pop_refill(self)
    IN  IF st.none
        THEN [self |-> self, ret |-> None,
              cmp |-> 0, app |-> 0, rem |-> 0, moved |-> << >>,
              reads |-> << >>]
        ELSE MovingMax_pop_take(st)

\* ------------------------------------------------------------ the callers
\* The order-reversed image of a value: the integer negated, the serial
\* number kept.
Mirror(x) == [v |-> 0 - x.v, id |-> x.id]

MirrorOpt(o) == IF o = None THEN None ELSE Some(Mirror(o[1]))

MirrorEntry(e) == << Mirror(e[1]), Mirror(e[2]) >>

MirrorStack(stack) == [i \in 1..Len(stack) |-> MirrorEntry(stack[i])]

\* The images of the values of a sequence.
MirrorSeq(w) == [i \in 1..Len(w) |-> Mirror(w[i])]

\* What a call of pop does, given the result res the code computes from the
\* state self.  If every get_unchecked read was inside the Vec, res.  If one
\* was outside it the behaviour is undefined: the call may return None or
\* any of the values vals and leave any of these states: the one computed,
\* the one before the call, the empty one.
PopOutcomes(res, self, vals) ==
    IF \A i \in 1..Len(res.reads) : InBounds(res.reads[i])
    THEN {res}
    ELSE {[res EXCEPT !.self = s, !.ret = r] :
            s \in {res.self, self, [push_stack |-> << >>, pop_stack |-> << >>]},
            r \in {None} \cup {Some(vals[i]) : i \in 1..Len(vals)}}

\* moves with one more move counted for every value of moved.
CountMoves(moves, moved) ==
    [i \in 1..Len(moves) |->
        moves[i] + Cardinality({k \in 1..Len(moved) : moved[k].id = i})]

VARIABLES
    moving_min,   \* the MovingMin: [push_stack, pop_stack]
    moving_max,   \* the MovingMax: [push_stack, pop_stack]
    calls,        \* the calls made so far, in order: "push" or "pop"
    pushed,       \* every value pushed on moving_min so far, in order
    window,       \* the reference window of moving_min, oldest first
    ret_min,      \* what the last pop of moving_min returned
    ret_max,      \* what the last pop of moving_max returned
    popped_min,   \* the values the pops of moving_min returned, in order
    popped_max,   \* the values the pops of moving_max returned, in order
    work_min,     \* elementary steps made inside moving_min's push and pop
    work_max,     \* elementary steps made inside moving_max's push and pop
    last_work,    \* the elementary steps of the last call on moving_min
    moves_min,    \* moves_min[id]: times value id went push_stack -> pop_stack
    moves_max,    \* the same for moving_max
    reads_min,    \* the get_unchecked reads of the last call on moving_min
    reads_max     \* the get_unchecked reads of the last call on moving_max

vars == << moving_min, moving_max, calls, pushed, window, ret_min, ret_max,
           popped_min, popped_max, work_min, work_max, last_work,
           moves_min, moves_max, reads_min, reads_max >>

\* The last call made ("new" before any), and the number of calls made.
op == IF calls = << >> THEN "new" ELSE Last(calls)

nops == Len(calls)

Init ==
    /\ moving_min = MovingMin_new
    /\ moving_max = MovingMax_new
    /\ calls = << >>
    /\ pushed = << >>
    /\ window = << >>
    /\ ret_min = None
    /\ ret_max = None
    /\ popped_min = << >>
    /\ popped_max = << >>
    /\ work_min = 0
    /\ work_max = 0
    /\ last_work = 0
    /\ moves_min = << >>
    /\ moves_max = << >>
    /\ reads_min = << >>
    /\ reads_max = << >>

\* moving_min.push(val) and moving_max.push(the image of val).
Push(v) ==
    /\ nops < MaxOps
    /\ LET val == T(v, Len(pushed) + 1)
           mn  == MovingMin_push(moving_min, val)
           mx  == MovingMax_push(moving_max, Mirror(val))
       IN  /\ moving_min' = mn.self
           /\ moving_max' = mx.self
           /\ pushed' = Append(pushed, val)
           /\ window' = Append(window, val)
           /\ work_min' = work_min + mn.cmp + mn.app + mn.rem
           /\ work_max' = work_max + mx.cmp + mx.app + mx.rem
           /\ last_work' = mn.cmp + mn.app + mn.rem
    /\ calls' = Append(calls, "push")
    /\ moves_min' = Append(moves_min, 0)
    /\ moves_max' = Append(moves_max, 0)
    /\ reads_min' = << >>
    /\ reads_max' = << >>
    /\ UNCHANGED << ret_min, ret_max, popped_min, popped_max >>

\* moving_min.pop() and moving_max.pop().
Pop ==
    /\ nops < MaxOps
    /\ \E mn \in PopOutcomes(MovingMin_pop(moving_min), moving_min, pushed),
          mx \in PopOutcomes(MovingMax_pop(moving_max), moving_max,
                             MirrorSeq(pushed)) :
           /\ moving_min' = mn.self
           /\ moving_max' = mx.self
           /\ ret_min' = mn.ret
           /\ ret_max' = mx.ret
           /\ popped_min' = popped_min \o mn.ret
           /\ popped_max' = popped_max \o mx.ret
           /\ work_min' = work_min + mn.cmp + mn.app + mn.rem
           /\ work_max' = work_max + mx.cmp + mx.app + mx.rem
           /\ last_work' = mn.cmp + mn.app + mn.rem
           /\ moves_min' = CountMoves(moves_min, mn.moved)
           /\ moves_max' = CountMoves(moves_max, mx.moved)
           /\ reads_min' = mn.reads
           /\ reads_max' = mx.reads
    /\ window' = IF window = << >> THEN << >> ELSE Tail(window)
    /\ calls' = Append(calls, "pop")
    /\ UNCHANGED pushed

Next == (\E v \in Values : Push(v)) \/ Pop

Spec == Init /\ [][Next]_vars

\* The same calls, at most MaxHist of them: the histories after which two
\* trackers holding the same window are compared over FutureLen further
\* calls.
HistPush(v) == nops < MaxHist /\ Push(v)

HistPop == nops < MaxHist /\ Pop

NextHist == (\E v \in Values : HistPush(v)) \/ HistPop

SpecHist == Init /\ [][NextHist]_vars

\* ------------------------------------------------------------- references
\* The window of moving_max: the images of the values of window.
window_max == [i \in 1..Len(window) |-> Mirror(window[i])]

\* The naive reference: x is a minimum (maximum) of the window w found by
\* rescanning it: x is one of its values and none is smaller (greater).
IsNaiveMin(x, w) ==
    /\ \E i \in 1..Len(w) : w[i] = x
    /\ \A i \in 1..Len(w) : ~ Lt(w[i], x)

IsNaiveMax(x, w) ==
    /\ \E i \in 1..Len(w) : w[i] = x
    /\ \A i \in 1..Len(w) : ~ Gt(w[i], x)

\* ------------------------------------------------------------------ claims
\* C1: after every sequence of push and pop calls, MovingMin::min returns
\* None exactly when the window is empty, and otherwise a value of the
\* window than which no value of the window is smaller.
C1_MinIsWindowMinimum ==
    LET m == MovingMin_min(moving_min)
    IN  /\ (m = None) <=> (window = << >>)
        /\ m # None => IsNaiveMin(m[1], window)

\* C1 witness: after pops and pushes, values in both stacks, the minimum
\* neither the oldest value nor the newest.
C1_Witness ==
    /\ popped_min # << >>
    /\ moving_min.push_stack # << >>
    /\ moving_min.pop_stack # << >>
    /\ Len(window) >= 3
    /\ MovingMin_min(moving_min) # None
    /\ Lt(MovingMin_min(moving_min)[1], window[1])
    /\ Lt(MovingMin_min(moving_min)[1], Last(window))

\* C2: after every sequence of push and pop calls, MovingMax::max returns
\* None exactly when the window is empty, and otherwise a value of the
\* window than which no value of the window is greater.
C2_MaxIsWindowMaximum ==
    LET m == MovingMax_max(moving_max)
    IN  /\ (m = None) <=> (window_max = << >>)
        /\ m # None => IsNaiveMax(m[1], window_max)

\* C2 witness: after pops and pushes, values in both stacks, the maximum
\* neither the oldest value nor the newest.
C2_Witness ==
    /\ popped_max # << >>
    /\ moving_max.push_stack # << >>
    /\ moving_max.pop_stack # << >>
    /\ Len(window_max) >= 3
    /\ MovingMax_max(moving_max) # None
    /\ Gt(MovingMax_max(moving_max)[1], window_max[1])
    /\ Gt(MovingMax_max(moving_max)[1], Last(window_max))

\* C3: on both trackers the k-th pop that returns a value returns the k-th
\* value pushed: the values popped so far are the first values pushed, in
\* the order pushed.
C3_FifoOrder ==
    /\ Len(popped_min) <= Len(pushed)
    /\ popped_min = SubSeq(pushed, 1, Len(popped_min))
    /\ Len(popped_max) <= Len(pushed)
    /\ popped_max = MirrorSeq(SubSeq(pushed, 1, Len(popped_max)))

\* C3 witness: three values, not all equal, pushed and all popped again,
\* with a push between two pops.
C3_Witness ==
    /\ Len(pushed) = 3
    /\ popped_min = pushed
    /\ pushed[1].v # pushed[2].v
    /\ pushed[2].v # pushed[3].v
    /\ calls = << "push", "push", "pop", "push", "pop", "pop" >>


\* C4: while the window is empty min() and max() return None; a pop() on an
\* empty window returns None and leaves both stacks as they were, empty; a
\* pop() on a non-empty window never returns None.
C4_EmptyWindowSignals ==
    /\ [](window = << >> =>
            /\ MovingMin_min(moving_min) = None
            /\ MovingMax_max(moving_max) = None)
    /\ [][(op' = "pop" /\ calls' # calls) =>
            IF window = << >>
            THEN /\ ret_min' = None
                 /\ ret_max' = None
                 /\ moving_min' = moving_min
                 /\ moving_max' = moving_max
                 /\ moving_min' = MovingMin_new
                 /\ moving_max' = MovingMax_new
            ELSE /\ ret_min' # None
                 /\ ret_max' # None]_vars

\* C4 witness: values were pushed, the window was drained, and a further
\* pop returned None on both trackers.
C4_Witness ==
    /\ op = "pop"
    /\ pushed # << >>
    /\ Len(popped_min) = Len(pushed)
    /\ window = << >>
    /\ ret_min = None
    /\ ret_max = None

\* C5: len() is the number of push calls minus the number of pop calls that
\* returned a value, and is the sum of the two stacks' lengths; a pop() that
\* returns None leaves len() as it was.
C5_SizeConsistency ==
    /\ [](/\ MovingMin_len(moving_min) = Len(pushed) - Len(popped_min)
          /\ MovingMax_len(moving_max) = Len(pushed) - Len(popped_max)
          /\ MovingMin_len(moving_min)
                = Len(moving_min.push_stack) + Len(moving_min.pop_stack)
          /\ MovingMax_len(moving_max)
                = Len(moving_max.push_stack) + Len(moving_max.pop_stack))
    /\ [][(op' = "pop" /\ calls' # calls) =>
            /\ ret_min' = None =>
                  MovingMin_len(moving_min') = MovingMin_len(moving_min)
            /\ ret_max' = None =>
                  MovingMax_len(moving_max') = MovingMax_len(moving_max)]_vars

\* C5 witness: a pop that returned None, then three pushes and a pop that
\* returned a value: len() is 2 with entries in pop_stack only.
C5_Witness ==
    /\ calls = << "pop", "push", "push", "push", "pop" >>
    /\ Len(popped_min) = 1
    /\ MovingMin_len(moving_min) = 2
    /\ MovingMax_len(moving_max) = 2
    /\ moving_min.push_stack = << >>

\* C6: a push(v) on an empty window followed at once by a pop(): the pop
\* returns Some(v) and leaves the tracker empty: min()/max() are None, len()
\* is 0 and a further pop() would return None.
C6_PushPopRoundTrip ==
    [][(op = "push" /\ Len(window) = 1 /\ op' = "pop" /\ calls' # calls) =>
        /\ ret_min' = Some(Last(pushed))
        /\ ret_max' = Some(Mirror(Last(pushed)))
        /\ moving_min' = MovingMin_new
        /\ moving_max' = MovingMax_new
        /\ MovingMin_min(moving_min') = None
        /\ MovingMax_max(moving_max') = None
        /\ MovingMin_len(moving_min') = 0
        /\ MovingMax_len(moving_max') = 0
        /\ MovingMin_pop(moving_min').ret = None
        /\ MovingMax_pop(moving_max').ret = None]_vars

\* C6 witness: the window was drained by a pop, then one value was pushed
\* and popped at once.
C6_Witness ==
    /\ Len(calls) >= 4
    /\ SubSeq(calls, Len(calls) - 2, Len(calls)) = << "pop", "push", "pop" >>
    /\ Len(pushed) >= 2
    /\ window = << >>
    /\ ret_min = Some(Last(pushed))
    /\ moving_min = MovingMin_new

\* C7: MovingMax, fed the images of the values MovingMin is fed, holds after
\* every call the entry-wise images of MovingMin's two stacks, and its pop()
\* results, len() and max() are the images of MovingMin's pop() results,
\* len() and min().
C7_MaxMirrorsMin ==
    /\ moving_max.push_stack = MirrorStack(moving_min.push_stack)
    /\ moving_max.pop_stack = MirrorStack(moving_min.pop_stack)
    /\ ret_max = MirrorOpt(ret_min)
    /\ popped_max = MirrorSeq(popped_min)
    /\ MovingMax_len(moving_max) = MovingMin_len(moving_min)
    /\ MovingMax_max(moving_max) = MirrorOpt(MovingMin_min(moving_min))

\* C7 witness: after a pop that returned a value, entries in both stacks of
\* both trackers, running extrema that differ from the entries' own values,
\* and a maximum other than 0, which is not its own image.
C7_Witness ==
    /\ ret_max # None
    /\ moving_max.push_stack # << >>
    /\ moving_max.pop_stack # << >>
    /\ Last(moving_max.push_stack)[1] # Last(moving_max.push_stack)[2]
    /\ Last(moving_min.pop_stack)[1] # Last(moving_min.pop_stack)[2]
    /\ MovingMax_max(moving_max)[1].v # 0

\* The sum of a sequence of numbers.
RECURSIVE SumSeq(_)
SumSeq(s) == IF s = << >> THEN 0 ELSE s[1] + SumSeq(Tail(s))

\* C8: no value is moved from push_stack to pop_stack more than once, and
\* the number of entries ever moved never exceeds the number of push calls.
C8_MovedAtMostOnce ==
    /\ \A i \in 1..Len(moves_min) : moves_min[i] <= 1
    /\ \A i \in 1..Len(moves_max) : moves_max[i] <= 1
    /\ SumSeq(moves_min) <= Len(pushed)
    /\ SumSeq(moves_max) <= Len(pushed)

\* C8 witness: three values pushed, moved in two separate transfers (the
\* first pop came after one push), each moved once, one still held.
C8_Witness ==
    /\ Len(pushed) = 3
    /\ calls[2] = "pop"
    /\ Len(window) = 1
    /\ \A i \in 1..3 : moves_min[i] = 1 /\ moves_max[i] = 1

\* C9: counting one step per comparison of values, per entry appended and
\* per entry removed inside push and pop, the steps made by any n calls are
\* at most 6n.
C9_AmortisedWork ==
    /\ work_min <= 6 * nops
    /\ work_max <= 6 * nops

\* C9 witness: a single pop that made more than 6 steps, three for each of
\* the four values the window held.
C9_Witness ==
    /\ op = "pop"
    /\ Len(window) = 3
    /\ last_work = 3 * 4
    /\ work_min > 3 * nops

Firsts(stack) == [i \in 1..Len(stack) |-> stack[i][1]]

\* A sequence read backwards.
Reverse(w) == [i \in 1..Len(w) |-> w[Len(w) + 1 - i]]

\* Every entry's second component is a minimum (maximum) of the values of
\* the entries from the bottom of the stack up to and including it.
RunningMinOK(stack) ==
    \A d \in 1..Len(stack) :
        IsNaiveMin(stack[d][2], Firsts(SubSeq(stack, 1, d)))

RunningMaxOK(stack) ==
    \A d \in 1..Len(stack) :
        IsNaiveMax(stack[d][2], Firsts(SubSeq(stack, 1, d)))

\* C11: at every depth d of push_stack the second component of the entry is
\* the minimum (MovingMin) or maximum (MovingMax) of the values of the
\* push_stack entries from the bottom up to and including depth d.
C11_PushSideRunningExtremum ==
    /\ RunningMinOK(moving_min.push_stack)
    /\ RunningMaxOK(moving_max.push_stack)

\* C11 witness: three entries in push_stack, the top one annotated with a
\* minimum that is neither its own value nor the bottom value.
C11_Witness ==
    /\ Len(moving_min.push_stack) >= 3
    /\ Lt(Last(moving_min.push_stack)[2], Last(moving_min.push_stack)[1])
    /\ Lt(Last(moving_min.push_stack)[2], moving_min.push_stack[1][1])
    /\ Gt(Last(moving_max.push_stack)[2], Last(moving_max.push_stack)[1])

\* C12: at every depth d of pop_stack the second component of the entry is
\* the minimum (MovingMin) or maximum (MovingMax) of the values of the
\* pop_stack entries from the bottom up to and including depth d, whatever
\* push_stack holds.
C12_PopSideRunningExtremum ==
    /\ RunningMinOK(moving_min.pop_stack)
    /\ RunningMaxOK(moving_max.pop_stack)

\* C12 witness: after a transfer and a further pop, two entries left in
\* pop_stack, the top one annotated with the value below it and not with
\* the smaller annotation it had while in push_stack.
C12_Witness ==
    /\ op = "pop"
    /\ Len(popped_min) >= 2
    /\ Len(moving_min.pop_stack) >= 2
    /\ Lt(Last(moving_min.pop_stack)[2], Last(moving_min.pop_stack)[1])
    /\ Gt(Last(moving_max.pop_stack)[2], Last(moving_max.pop_stack)[1])
    /\ \E i \in 1..Len(popped_min) :
          Lt(popped_min[i], Last(moving_min.pop_stack)[2])

\* The window a tracker represents: the values of pop_stack from the top
\* down, then the values of push_stack from the bottom up.
WindowOf(self) == Reverse(Firsts(self.pop_stack)) \o Firsts(self.push_stack)

\* The number of entries of a stack that hold the value x.
Holds(stack, x) == Cardinality({i \in 1..Len(stack) : stack[i][1] = x})

\* C13: the window, oldest first, is the values of pop_stack read from the
\* top down followed by the values of push_stack read from the bottom up;
\* every queued value is in exactly one entry of one stack; a non-empty
\* pop_stack has the oldest queued value on top.
C13_WindowRepresentation ==
    /\ window = WindowOf(moving_min)
    /\ window_max = WindowOf(moving_max)
    /\ \A i \in 1..Len(window) :
          /\ Holds(moving_min.push_stack, window[i])
               + Holds(moving_min.pop_stack, window[i]) = 1
          /\ Holds(moving_max.push_stack, window_max[i])
               + Holds(moving_max.pop_stack, window_max[i]) = 1
    /\ moving_min.pop_stack # << >> =>
          Last(moving_min.pop_stack)[1] = Head(window)
    /\ moving_max.pop_stack # << >> =>
          Last(moving_max.pop_stack)[1] = Head(window_max)

\* C13 witness: two values in pop_stack and newer ones in push_stack.
C13_Witness ==
    /\ Len(moving_min.pop_stack) >= 2
    /\ moving_min.push_stack # << >>
    /\ Len(moving_max.pop_stack) >= 2
    /\ moving_max.push_stack # << >>
    /\ Len(window) >= 3

\* C14: entries move from push_stack to pop_stack only inside a pop() that
\* finds pop_stack empty and push_stack non-empty; that pop() moves every
\* entry of push_stack, leaving push_stack empty and pop_stack one entry
\* shorter than push_stack was.
C14_TransferDiscipline ==
    [][calls' # calls =>
        LET n_min == SumSeq(moves_min') - SumSeq(moves_min)
            n_max == SumSeq(moves_max') - SumSeq(moves_max)
            t_min == /\ op' = "pop"
                     /\ moving_min.pop_stack = << >>
                     /\ moving_min.push_stack # << >>
            t_max == /\ op' = "pop"
                     /\ moving_max.pop_stack = << >>
                     /\ moving_max.push_stack # << >>
        IN  /\ n_min > 0 => t_min
            /\ n_max > 0 => t_max
            /\ ~ t_min => Len(moving_min'.pop_stack) <= Len(moving_min.pop_stack)
            /\ ~ t_max => Len(moving_max'.pop_stack) <= Len(moving_max.pop_stack)
            /\ t_min => /\ n_min = Len(moving_min.push_stack)
                         /\ moving_min'.push_stack = << >>
                         /\ Len(moving_min'.pop_stack)
                              = Len(moving_min.push_stack) - 1
            /\ t_max => /\ n_max = Len(moving_max.push_stack)
                         /\ moving_max'.push_stack = << >>
                         /\ Len(moving_max'.pop_stack)
                              = Len(moving_max.push_stack) - 1]_vars

\* C14 witness: a pop has just moved three entries (9 steps) after an
\* earlier pop had emptied the window: push_stack is empty, pop_stack
\* holds two.
C14_Witness ==
    /\ op = "pop"
    /\ Len(popped_min) = 2
    /\ last_work = 3 * 3
    /\ moving_min.push_stack = << >>
    /\ Len(moving_min.pop_stack) = 2
    /\ moving_max.push_stack = << >>
    /\ Len(moving_max.pop_stack) = 2

\* C15: push(v) leaves pop_stack and every entry of push_stack as they
\* were and appends one entry whose value is v to the top of push_stack;
\* it can always be called.
C15_PushFrame ==
    /\ [](nops < MaxOps => \A v \in Values : ENABLED Push(v))
    /\ [][(op' = "push" /\ calls' # calls) =>
            /\ moving_min'.pop_stack = moving_min.pop_stack
            /\ Len(moving_min'.push_stack) = Len(moving_min.push_stack) + 1
            /\ Front(moving_min'.push_stack) = moving_min.push_stack
            /\ Last(moving_min'.push_stack)[1] = Last(pushed')
            /\ moving_max'.pop_stack = moving_max.pop_stack
            /\ Len(moving_max'.push_stack) = Len(moving_max.push_stack) + 1
            /\ Front(moving_max'.push_stack) = moving_max.push_stack
            /\ Last(moving_max'.push_stack)[1] = Mirror(Last(pushed'))]_vars

\* C15 witness: a push has just been made onto a push_stack that held an
\* entry with a smaller value, with entries in pop_stack.
C15_Witness ==
    /\ op = "push"
    /\ moving_min.pop_stack # << >>
    /\ Len(moving_min.push_stack) >= 2
    /\ Gt(Last(moving_min.push_stack)[1], moving_min.push_stack[1][1])

\* Every entry of the stack holds, as its value, the value that was pushed
\* with that serial number (its image, for MovingMax).
ValuesAsPushed(stack, image(_)) ==
    \A i \in 1..Len(stack) :
        /\ stack[i][1].id \in 1..Len(pushed)
        /\ stack[i][1] = image(pushed[stack[i][1].id])

Same(x) == x

\* C16: a pop() that finds pop_stack non-empty returns the value of its top
\* entry, removes that entry alone and leaves push_stack and the other
\* entries of pop_stack as they were; the value of a stored entry is never
\* other than the value pushed.
C16_PopFrame ==
    /\ [](/\ ValuesAsPushed(moving_min.push_stack, Same)
          /\ ValuesAsPushed(moving_min.pop_stack, Same)
          /\ ValuesAsPushed(moving_max.push_stack, Mirror)
          /\ ValuesAsPushed(moving_max.pop_stack, Mirror))
    /\ [][(op' = "pop" /\ calls' # calls /\ moving_min.pop_stack # << >>) =>
            /\ ret_min' = Some(Last(moving_min.pop_stack)[1])
            /\ moving_min'.pop_stack = Front(moving_min.pop_stack)
            /\ moving_min'.push_stack = moving_min.push_stack]_vars
    /\ [][(op' = "pop" /\ calls' # calls /\ moving_max.pop_stack # << >>) =>
            /\ ret_max' = Some(Last(moving_max.pop_stack)[1])
            /\ moving_max'.pop_stack = Front(moving_max.pop_stack)
            /\ moving_max'.push_stack = moving_max.push_stack]_vars

\* C16 witness: the last pop moved nothing (one step, the removal) and
\* returned a value that was not the running minimum of its entry; entries
\* are left in both stacks.
C16_Witness ==
    /\ op = "pop"
    /\ last_work = 1
    /\ ret_min # None
    /\ moving_min.pop_stack # << >>
    /\ moving_min.push_stack # << >>
    /\ \E i \in 1..Len(window) : Lt(window[i], ret_min[1])

\* Every read of the sequence was made on a non-empty pop_stack, at index
\* len - 1, inside the Vec, and gave the entry appended last.
ReadsSafe(reads) ==
    \A i \in 1..Len(reads) :
        LET r == reads[i]
        IN  /\ r.len >= 1
            /\ r.index = r.len - 1
            /\ InBounds(r)
            /\ r.entry # None
            /\ r.newest # None
            /\ r.entry[1][1] = r.newest[1]

\* C17: whenever pop() evaluates pop_stack.get_unchecked(pop_stack.len() - 1)
\* pop_stack is non-empty, so the subtraction does not underflow and the
\* index is inside the Vec, and the entry read is the one appended last.
C17_UncheckedIndexSafe ==
    /\ ReadsSafe(reads_min)
    /\ ReadsSafe(reads_max)

\* C17 witness: the last pop made two reads or more, on pop_stacks of
\* lengths 1, 2, ...
C17_Witness ==
    /\ op = "pop"
    /\ Len(reads_min) >= 2
    /\ Len(reads_max) >= 2
    /\ reads_min[1].len = 1
    /\ reads_min[2].index = 1

\* C18: push can be called in every state, and pop(), min(), max() and
\* len() give a result in every state; the loop of a pop() that moves
\* entries makes one iteration less than push_stack held entries at the
\* call, each leaving push_stack one entry shorter, and ends with
\* push_stack empty; any other pop() makes none.
C18_Termination ==
    /\ [](nops < MaxOps => \A v \in Values : ENABLED Push(v))
    /\ [](/\ PopOutcomes(MovingMin_pop(moving_min), moving_min, pushed) # {}
          /\ PopOutcomes(MovingMax_pop(moving_max), moving_max,
                         MirrorSeq(pushed)) # {}
          /\ Len(MovingMin_pop(moving_min).ret) \in {0, 1}
          /\ Len(MovingMax_pop(moving_max).ret) \in {0, 1}
          /\ MovingMin_len(moving_min) \in Nat
          /\ MovingMax_len(moving_max) \in Nat
          /\ Len(MovingMin_min(moving_min)) \in {0, 1}
          /\ Len(MovingMax_max(moving_max)) \in {0, 1})
    /\ [][(op' = "pop" /\ calls' # calls) =>
            LET n_min == Len(moving_min.push_stack)
                n_max == Len(moving_max.push_stack)
                t_min == moving_min.pop_stack = << >> /\ n_min > 0
                t_max == moving_max.pop_stack = << >> /\ n_max > 0
            IN  /\ Len(reads_min') = IF t_min THEN n_min - 1 ELSE 0
                /\ Len(reads_max') = IF t_max THEN n_max - 1 ELSE 0
                /\ \A i \in 1..Len(reads_min') :
                      reads_min'[i].left = n_min - 1 - i
                /\ \A i \in 1..Len(reads_max') :
                      reads_max'[i].left = n_max - 1 - i
                /\ t_min => moving_min'.push_stack = << >>
                /\ t_max => moving_max'.push_stack = << >>]_vars

\* C18 witness: a pop whose loop made three iterations, leaving 2, 1 and 0
\* entries in push_stack.
C18_Witness ==
    /\ op = "pop"
    /\ Len(reads_min) = 3
    /\ reads_min[1].left = 2
    /\ reads_min[3].left = 0
    /\ moving_min.push_stack = << >>
    /\ Len(reads_max) = 3

\* The second components of a MovingMin stack do not increase from the
\* bottom to the top; each is not greater than its entry's value and is the
\* value of an entry at or below it.  MonotoneMax: the same with the order
\* reversed.
MonotoneMin(stack) ==
    /\ \A d \in 1..(Len(stack) - 1) : ~ Gt(stack[d + 1][2], stack[d][2])
    /\ \A d \in 1..Len(stack) :
          /\ ~ Gt(stack[d][2], stack[d][1])
          /\ \E j \in 1..d : stack[d][2] = stack[j][1]

MonotoneMax(stack) ==
    /\ \A d \in 1..(Len(stack) - 1) : ~ Lt(stack[d + 1][2], stack[d][2])
    /\ \A d \in 1..Len(stack) :
          /\ ~ Lt(stack[d][2], stack[d][1])
          /\ \E j \in 1..d : stack[d][2] = stack[j][1]

\* C19: in both stacks of MovingMin the second components are non-increasing
\* from bottom to top, each at most its entry's value and equal to the
\* value of an entry at or below it; in both stacks of MovingMax they are
\* non-decreasing, each at least its entry's value and equal to the value
\* of an entry at or below it.
C19_MonotoneAnnotations ==
    /\ MonotoneMin(moving_min.push_stack)
    /\ MonotoneMin(moving_min.pop_stack)
    /\ MonotoneMax(moving_max.push_stack)
    /\ MonotoneMax(moving_max.pop_stack)

\* C19 witness: two entries or more in each stack, the running minimum
\* strictly falling (the running maximum strictly rising) towards the top
\* of each.
C19_Witness ==
    /\ Len(moving_min.push_stack) >= 2
    /\ Len(moving_min.pop_stack) >= 2
    /\ Lt(Last(moving_min.push_stack)[2], moving_min.push_stack[1][2])
    /\ Lt(Last(moving_min.pop_stack)[2], moving_min.pop_stack[1][2])
    /\ Gt(Last(moving_max.push_stack)[2], moving_max.push_stack[1][2])
    /\ Gt(Last(moving_max.pop_stack)[2], moving_max.pop_stack[1][2])

\* A tracker holding the window w and reached by pushes alone from new().
RECURSIVE FreshMin(_)
FreshMin(w) ==
    IF w = << >> THEN MovingMin_new
    ELSE MovingMin_push(FreshMin(Front(w)), Last(w)).self

RECURSIVE FreshMax(_)
FreshMax(w) ==
    IF w = << >> THEN MovingMax_new
    ELSE MovingMax_push(FreshMax(Front(w)), Last(w)).self

\* A further call: pop(), or push(v) for a v of Values.
FutureOps ==
    {[pop |-> TRUE, v |-> 0]} \cup {[pop |-> FALSE, v |-> v] : v \in Values}

\* What the caller sees of a tracker after a call: what the call returned
\* (None for a push), min() or max(), and len().
ObsMin(self, ret) ==
    [ret |-> ret, ext |-> MovingMin_min(self), len |-> MovingMin_len(self)]

ObsMax(self, ret) ==
    [ret |-> ret, ext |-> MovingMax_max(self), len |-> MovingMax_len(self)]

\* The integer of an Option<T>.
IntOf(o) == IF o = None THEN None ELSE Some(o[1].v)

\* Two observations are the same: identical, or (exact = FALSE) identical
\* but for min()/max(), whose values compare equal.
SameObs(a, b, exact) ==
    /\ a.ret = b.ret
    /\ a.len = b.len
    /\ IF exact THEN a.ext = b.ext ELSE IntOf(a.ext) = IntOf(b.ext)

\* The trackers a and b show the caller the same now and after each call
\* of every sequence of n further calls, the pushes bringing in the serial
\* numbers id, id + 1, ...
RECURSIVE AgreeMin(_, _, _, _, _, _, _)
AgreeMin(a, ra, b, rb, n, id, exact) ==
    /\ SameObs(ObsMin(a, ra), ObsMin(b, rb), exact)
    /\ n > 0 =>
         \A o \in FutureOps :
             IF o.pop
             THEN LET x == MovingMin_pop(a)
                      y == MovingMin_pop(b)
                  IN  AgreeMin(x.self, x.ret, y.self, y.ret, n - 1, id, exact)
             ELSE AgreeMin(MovingMin_push(a, T(o.v, id)).self, None,
                           MovingMin_push(b, T(o.v, id)).self, None,
                           n - 1, id + 1, exact)

RECURSIVE AgreeMax(_, _, _, _, _, _, _)
AgreeMax(a, ra, b, rb, n, id, exact) ==
    /\ SameObs(ObsMax(a, ra), ObsMax(b, rb), exact)
    /\ n > 0 =>
         \A o \in FutureOps :
             IF o.pop
             THEN LET x == MovingMax_pop(a)
                      y == MovingMax_pop(b)
                  IN  AgreeMax(x.self, x.ret, y.self, y.ret, n - 1, id, exact)
             ELSE AgreeMax(MovingMax_push(a, T(o.v, id)).self, None,
                           MovingMax_push(b, T(o.v, id)).self, None,
                           n - 1, id + 1, exact)

\* C20 as claimed: a tracker and a tracker that holds the same window but
\* was reached by pushes alone return identical results from min()/max(),
\* len() and pop(), now and over every sequence of FutureLen further calls.
C20_SameWindowSameResults ==
    /\ AgreeMin(moving_min, None, FreshMin(window), None,
                FutureLen, Len(pushed) + 1, TRUE)
    /\ AgreeMax(moving_max, None, FreshMax(window_max), None,
                FutureLen, Len(pushed) + 1, TRUE)

\* C20 as amended: they return identical results from len() and pop(), and
\* from min()/max() values that compare equal; a drained tracker is in the
\* state of a new one.
C20_SameWindowSameResultsUpToTies ==
    /\ AgreeMin(moving_min, None, FreshMin(window), None,
                FutureLen, Len(pushed) + 1, FALSE)
    /\ AgreeMax(moving_max, None, FreshMax(window_max), None,
                FutureLen, Len(pushed) + 1, FALSE)
    /\ window = << >> =>
          moving_min = MovingMin_new /\ moving_max = MovingMax_new

\* C20 witness: after pushes and a pop the window is split over the two
\* stacks, and min() returns a value other than, but comparing equal to,
\* the one returned by the tracker that got the same window by pushes
\* alone.
C20_Witness ==
    /\ popped_min # << >>
    /\ moving_min.pop_stack # << >>
    /\ moving_min.push_stack # << >>
    /\ moving_min # FreshMin(window)
    /\ MovingMin_min(moving_min) # MovingMin_min(FreshMin(window))
    /\ IntOf(MovingMin_min(moving_min)) = IntOf(MovingMin_min(FreshMin(window)))

====
